---------------------------- MODULE Spec2Model ----------------------------
(***************************************************************************)
(* Model of src/src/rendering/svg.ts: the speed-gradient synthesis of      *)
(* toSvgBackgroundGradient (expander, merger, stop compressor, boundary    *)
(* synthesis, rendering of offsets and opacities) and the paint order of   *)
(* toSvgLines.                                                             *)
(*                                                                         *)
(* JavaScript numbers are modelled as IEEE-754 doubles: every arithmetic   *)
(* operation gives the double nearest to its exact result (ties to the     *)
(* even significand), toFixed(2) works on the exact value of the double.   *)
(***************************************************************************)
EXTENDS Integers, Sequences, FiniteSets, TLC

(***************************************************************************)
(* Bounds of the model.                                                    *)
(***************************************************************************)
\* largest number of keyframes (actions) of a generated script
MaxActions == 3
\* longest stop list on which the redundancy filter is tried exhaustively
MaxStops == 6

(***************************************************************************)
(* Natural numbers of any size: little-endian sequences of limbs in        *)
(* 0..LimbBase-1 without a most-significant zero limb (<<>> is zero).      *)
(***************************************************************************)
LimbBits == 15
LimbBase == 32768

Abs(x) == IF x < 0 THEN -x ELSE x
Max2(a, b) == IF a >= b THEN a ELSE b

RECURSIVE BTrim(_)
BTrim(a) ==
    IF Len(a) = 0 \/ a[Len(a)] # 0 THEN a ELSE BTrim(SubSeq(a, 1, Len(a) - 1))

\* the limbs of the integer n >= 0
RECURSIVE BInt(_)
BInt(n) == IF n = 0 THEN <<>> ELSE <<n % LimbBase>> \o BInt(n \div LimbBase)

\* the integer of the limbs a
RECURSIVE BToInt(_)
BToInt(a) == IF a = <<>> THEN 0 ELSE a[1] + LimbBase * BToInt(Tail(a))

BLimb(a, j) == IF j <= Len(a) THEN a[j] ELSE 0

BAdd(a, b) ==
    LET n == Max2(Len(a), Len(b))
        S[j \in 0..n] ==
            IF j = 0 THEN [c |-> 0, r |-> <<>>]
            ELSE LET p == S[j - 1]
                     t == BLimb(a, j) + BLimb(b, j) + p.c
                 IN  [c |-> t \div LimbBase, r |-> Append(p.r, t % LimbBase)]
        u == S[n]
    IN  BTrim(Append(u.r, u.c))

\* a - b for a >= b
BSub(a, b) ==
    LET n == Len(a)
        S[j \in 0..n] ==
            IF j = 0 THEN [c |-> 0, r |-> <<>>]
            ELSE LET p == S[j - 1]
                     t == BLimb(a, j) - BLimb(b, j) - p.c
                 IN  IF t < 0 THEN [c |-> 1, r |-> Append(p.r, t + LimbBase)]
                     ELSE [c |-> 0, r |-> Append(p.r, t)]
    IN  BTrim(S[n].r)

\* -1, 0, 1 as a < b, a = b, a > b
BCmp(a, b) ==
    IF Len(a) # Len(b) THEN (IF Len(a) < Len(b) THEN -1 ELSE 1)
    ELSE LET diff == {j \in 1..Len(a) : a[j] # b[j]}
         IN  IF diff = {} THEN 0
             ELSE LET t == CHOOSE j \in diff : \A k \in diff : k <= j
                  IN  IF a[t] < b[t] THEN -1 ELSE 1

\* a * k for 0 <= k < LimbBase
BMulSmall(a, k) ==
    LET n == Len(a)
        S[j \in 0..n] ==
            IF j = 0 THEN [c |-> 0, r |-> <<>>]
            ELSE LET p == S[j - 1]
                     t == a[j] * k + p.c
                 IN  [c |-> t \div LimbBase, r |-> Append(p.r, t % LimbBase)]
        u == S[n]
    IN  BTrim(Append(u.r, u.c))

\* a * LimbBase^k
BShiftLimbs(a, k) == IF a = <<>> THEN a ELSE [j \in 1..k |-> 0] \o a

BMul(a, b) ==
    LET P[j \in 0..Len(b)] ==
            IF j = 0 THEN <<>>
            ELSE BAdd(P[j - 1], BShiftLimbs(BMulSmall(a, b[j]), j - 1))
    IN  P[Len(b)]

\* a * 2^s
BShl(a, s) ==
    IF s = 0 THEN a
    ELSE BShiftLimbs(BMulSmall(a, 2 ^ (s % LimbBits)), s \div LimbBits)

\* floor(a / 2^s)
BShr(a, s) ==
    IF s = 0 THEN a ELSE
    LET k == s \div LimbBits
        p == 2 ^ (s % LimbBits)
        h == LimbBase \div p
        n == Len(a) - k
    IN  IF n <= 0 THEN <<>>
        ELSE BTrim([j \in 1..n |->
                       (a[j + k] \div p) + (BLimb(a, j + k + 1) % p) * h])

\* the number of bits of the integer n >= 0, and of the limbs a
RECURSIVE IntBitLen(_)
IntBitLen(n) == IF n = 0 THEN 0 ELSE 1 + IntBitLen(n \div 2)
BBitLen(a) ==
    IF a = <<>> THEN 0 ELSE LimbBits * (Len(a) - 1) + IntBitLen(a[Len(a)])

\* the number of zero bits at the low end of n > 0, and of a # <<>>
RECURSIVE IntTrailingZeros(_)
IntTrailingZeros(n) == IF n % 2 = 1 THEN 0 ELSE 1 + IntTrailingZeros(n \div 2)
BTrailingZeros(a) ==
    LET j == CHOOSE j \in 1..Len(a) : a[j] # 0 /\ \A k \in 1..(j - 1) : a[k] = 0
    IN  LimbBits * (j - 1) + IntTrailingZeros(a[j])

\* bit k (from 0) of a
BBit(a, k) == (BLimb(a, (k \div LimbBits) + 1) \div (2 ^ (k % LimbBits))) % 2

\* the largest d in lo..(hi - 1) with b * d <= r, given b * lo <= r < b * hi
RECURSIVE BDigit(_, _, _, _)
BDigit(r, b, lo, hi) ==
    IF hi - lo = 1 THEN lo
    ELSE LET mid == (lo + hi) \div 2
         IN  IF BCmp(BMulSmall(b, mid), r) <= 0 THEN BDigit(r, b, mid, hi)
             ELSE BDigit(r, b, lo, mid)

\* quotient and remainder of a by b # <<>>: long division, a limb at a time
BDivMod(a, b) ==
    LET n == Len(a)
        S[j \in 0..n] ==
            IF j = 0 THEN [q |-> <<>>, r |-> <<>>]
            ELSE LET p  == S[j - 1]
                     r2 == BTrim(<<a[n - j + 1]>> \o p.r)
                     d  == IF Len(b) = 1 THEN BToInt(r2) \div b[1]
                           ELSE BDigit(r2, b, 0, LimbBase)
                 IN  [q |-> <<d>> \o p.q, r |-> BSub(r2, BMulSmall(b, d))]
        u == S[n]
    IN  [q |-> BTrim(u.q), r |-> u.r]

(***************************************************************************)
(* JavaScript numbers: IEEE-754 doubles.  A finite number is                *)
(* s * m * 2^e with the sign s in {1, -1}, the significand m an odd        *)
(* natural of at most 53 bits (limbs) and the exponent e; zero is          *)
(* s = 1, m = <<>>, e = 0 (the sign of zero is not kept: no operation of    *)
(* the program tells -0 from 0).  The exponent range of doubles is not     *)
(* modelled: no value of the program leaves it.  Equal numbers are equal   *)
(* records.                                                                *)
(***************************************************************************)
SignificandBits == 53

Zero   == [k |-> "fin", s |-> 1, m |-> <<>>, e |-> 0]
NaN    == [k |-> "nan", s |-> 1, m |-> <<>>, e |-> 0]
PosInf == [k |-> "inf", s |-> 1, m |-> <<>>, e |-> 0]
NegInf == [k |-> "inf", s |-> -1, m |-> <<>>, e |-> 0]
Inf(s) == IF s > 0 THEN PosInf ELSE NegInf
IsFinite(v) == v.k = "fin"
IsZero(v) == v.k = "fin" /\ v.m = <<>>

\* the exact value s * M * 2^e, significand of any length
Exact(s, M, e) ==
    IF M = <<>> THEN Zero
    ELSE IF M[1] % 2 = 1 THEN [k |-> "fin", s |-> s, m |-> M, e |-> e]
    ELSE LET z == BTrailingZeros(M)
         IN  [k |-> "fin", s |-> s, m |-> BShr(M, z), e |-> e + z]

\* the double nearest to the exact value x, ties to the even significand
Fl(x) ==
    LET n == BBitLen(x.m)
        d == n - SignificandBits
    IN  IF d <= 0 THEN x
        ELSE LET q    == BShr(x.m, d)
                 half == BBit(x.m, d - 1) = 1
                 rest == BTrailingZeros(x.m) < d - 1
                 up   == half /\ (rest \/ BBit(q, 0) = 1)
             IN  Exact(x.s, IF up THEN BAdd(q, <<1>>) ELSE q, x.e + d)

\* exact sum, difference and product of finite values
ExNeg(x) == IF IsZero(x) THEN x ELSE [x EXCEPT !.s = -x.s]
ExAdd(x, y) ==
    IF IsZero(x) THEN y
    ELSE IF IsZero(y) THEN x
    ELSE LET e == IF x.e <= y.e THEN x.e ELSE y.e
             a == BShl(x.m, x.e - e)
             b == BShl(y.m, y.e - e)
             c == BCmp(a, b)
         IN  IF x.s = y.s THEN Exact(x.s, BAdd(a, b), e)
             ELSE IF c = 0 THEN Zero
             ELSE IF c > 0 THEN Exact(x.s, BSub(a, b), e)
             ELSE Exact(y.s, BSub(b, a), e)
ExSub(x, y) == ExAdd(x, ExNeg(y))
ExMul(x, y) == Exact(x.s * y.s, BMul(x.m, y.m), x.e + y.e)

\* the sign of the finite value x, and of x - y for finite x and y
Sgn(x) == IF IsZero(x) THEN 0 ELSE x.s
SgnDiff(x, y) ==
    IF Sgn(x) # Sgn(y) THEN (IF Sgn(x) < Sgn(y) THEN -1 ELSE 1)
    ELSE IF IsZero(x) THEN 0
    ELSE LET p == BBitLen(x.m) + x.e
             q == BBitLen(y.m) + y.e
             e == IF x.e <= y.e THEN x.e ELSE y.e
         IN  IF p # q THEN (IF p < q THEN -x.s ELSE x.s)
             ELSE x.s * BCmp(BShl(x.m, x.e - e), BShl(y.m, y.e - e))

\* the integer k and the fraction n/d (d # 0) as numbers
Q(k) == Exact(IF k < 0 THEN -1 ELSE 1, BInt(Abs(k)), 0)

\* x + y, x - y, x * y, x / y
Neg(x) == IF x.k = "nan" THEN x ELSE IF x.k = "inf" THEN Inf(-x.s) ELSE ExNeg(x)
Add(x, y) ==
    IF x.k = "nan" \/ y.k = "nan" THEN NaN
    ELSE IF x.k = "inf" THEN (IF y.k = "inf" /\ y.s # x.s THEN NaN ELSE x)
    ELSE IF y.k = "inf" THEN y
    ELSE Fl(ExAdd(x, y))
Sub(x, y) == Add(x, Neg(y))
Mul(x, y) ==
    IF x.k = "nan" \/ y.k = "nan" THEN NaN
    ELSE IF x.k = "inf" \/ y.k = "inf"
         THEN (IF IsZero(x) \/ IsZero(y) THEN NaN ELSE Inf(x.s * y.s))
    ELSE Fl(ExMul(x, y))
Div(x, y) ==
    IF x.k = "nan" \/ y.k = "nan" THEN NaN
    ELSE IF x.k = "inf" THEN (IF y.k = "inf" THEN NaN ELSE Inf(x.s * y.s))
    ELSE IF y.k = "inf" THEN Zero
    ELSE IF IsZero(y) THEN (IF IsZero(x) THEN NaN ELSE Inf(x.s))
    ELSE IF IsZero(x) THEN Zero
    ELSE LET g  == SignificandBits + 3 + BBitLen(y.m) - BBitLen(x.m)
             sh == IF g > 0 THEN g ELSE 0
             qr == BDivMod(BShl(x.m, sh), y.m)
             \* a remainder is kept as one more low bit of the quotient
             M  == IF qr.r = <<>> THEN qr.q
                   ELSE BAdd(BMulSmall(qr.q, 2), <<1>>)
             e  == IF qr.r = <<>> THEN x.e - y.e - sh ELSE x.e - y.e - sh - 1
         IN  Fl(Exact(x.s * y.s, M, e))
Frac(n, d) == Div(Q(n), Q(d))

\* x < y, x <= y and x === y (all false when an operand is NaN)
Lt(x, y) ==
    IF x.k = "nan" \/ y.k = "nan" THEN FALSE
    ELSE IF x.k = "inf" THEN x.s < 0 /\ y # x
    ELSE IF y.k = "inf" THEN y.s > 0
    ELSE SgnDiff(x, y) < 0
StrictEq(x, y) == x.k # "nan" /\ x = y
Le(x, y) == Lt(x, y) \/ StrictEq(x, y)

\* Math.min(1, v) and Math.max(0, v)
MathMin1(v) == IF v.k = "nan" THEN NaN ELSE IF Lt(Q(1), v) THEN Q(1) ELSE v
MathMax0(v) == IF v.k = "nan" THEN NaN ELSE IF Lt(v, Q(0)) THEN Q(0) ELSE v

\* the integer part of the finite value x, toward zero (~~x, for |x| < 2^31)
Trunc(x) ==
    IF IsZero(x) THEN 0
    ELSE x.s * BToInt(IF x.e >= 0 THEN BShl(x.m, x.e) ELSE BShr(x.m, -x.e))

(***************************************************************************)
(* round = x => +x.toFixed(2): the integer n for which n/100 is nearest to *)
(* the exact value of |x| (the larger n when two are equally near), the    *)
(* sign of x, and the double nearest to the decimal n/100.                 *)
(***************************************************************************)
Hundredths(x) ==
    LET t == BMulSmall(x.m, 100)
    IN  IF x.e >= 0 THEN BShl(t, x.e)
        ELSE BShr(BAdd(t, BShl(<<1>>, -x.e - 1)), -x.e)
round(v) ==
    IF ~IsFinite(v) THEN v
    ELSE Div(Exact(v.s, Hundredths(v), 0), Q(100))

(***************************************************************************)
(* Program constants.                                                      *)
(***************************************************************************)
\* svgDefaultOptions and the graph area toSvgG hands to toSvgLines
width == 690
height == 52
titleHeight == 20
titleSpacing == 0
iconWidth == 46
iconSpacing == 0
lineWidth == Frac(1, 2)
graphWidth == width - iconWidth - iconSpacing
graphHeight == height - titleHeight - titleSpacing
\* the literals of toSvgBackgroundGradient
SplitMinLen == 2000
SplitBias == 500
SplitUnit == 1000
MergeSpan == 1000
FadePad == 100
OpaqueSpeed == 100

(***************************************************************************)
(* Data: a FunAction is [at, pos]; a line is the triple <<a, b, speed>>    *)
(* of actionsToLines; a stop is [at, speed].                               *)
(***************************************************************************)
FunAction(at, pos) == [at |-> at, pos |-> pos]

\* utils/misc lerp: linear interpolation between a and b at fraction t
lerp(a, b, t) == Add(a, Mul(Sub(b, a), t))

\* the elements of s whose index is in K, in order
SelectIdx(s, K) ==
    LET F[j \in 0..Len(s)] ==
            IF j = 0 THEN <<>>
            ELSE IF j \in K THEN Append(F[j - 1], s[j]) ELSE F[j - 1]
    IN  F[Len(s)]

\* Array.prototype.flatMap over a sequence of sequences
Flatten(ss) ==
    LET F[j \in 0..Len(ss)] == IF j = 0 THEN <<>> ELSE F[j - 1] \o ss[j]
    IN  F[Len(ss)]

(***************************************************************************)
(* Interval expander: the flatMap callback of toSvgBackgroundGradient.     *)
(***************************************************************************)
\* (variant: the split count of the source's comment, len/1000 - 1)
SplitCount_Comment(len) == Trunc(Div(len, Q(SplitUnit))) - 1

\* (variant: the split count without the 500 ms bias)
SplitCount_NoBias(len) == Trunc(Div(len, Q(SplitUnit)))

\* N = ~~((len - 500) / 1000)
SplitCount(len) == Trunc(Div(Sub(len, Q(SplitBias)), Q(SplitUnit)))

SplitLine(e, N) ==
    [k \in 1..N |->
        <<FunAction(lerp(e[1].at, e[2].at, Frac(k - 1, N)),
                    lerp(e[1].pos, e[2].pos, Frac(k - 1, N))),
          FunAction(lerp(e[1].at, e[2].at, Frac(k, N)),
                    lerp(e[1].pos, e[2].pos, Frac(k, N))),
          e[3]>>]

ExpandLine(e) ==
    LET len == Sub(e[2].at, e[1].at)
    IN  IF Le(len, Q(0)) THEN <<>>
        ELSE IF Lt(len, Q(SplitMinLen)) THEN <<e>>
        ELSE SplitLine(e, SplitCount(len))

ExpandLines(ls) == Flatten([j \in 1..Len(ls) |-> ExpandLine(ls[j])])

(***************************************************************************)
(* Interval merger: one iteration of the for loop at index ix (1-based).   *)
(***************************************************************************)
MergeTest(l, r) == Lt(Sub(r[2].at, l[1].at), Q(MergeSpan))

\* (variant: the plain average of the two speeds)
MergedSpeed_Unweighted(l, r) == Div(Add(l[3], r[3]), Q(2))

MergedSpeed(l, r) ==
    LET ab == Sub(l[2].at, l[1].at)
        cd == Sub(r[2].at, r[1].at)
    IN  Div(Add(Mul(l[3], ab), Mul(r[3], cd)), Add(ab, cd))

\* (variant: only the left segment of the pair is replaced, splice(i, 1, ...))
Splice2_KeepRight(ls, ix, e) ==
    SubSeq(ls, 1, ix - 1) \o <<e>> \o SubSeq(ls, ix + 1, Len(ls))

\* lines.splice(i, 2, [a, d, speed])
Splice2(ls, ix, e) ==
    SubSeq(ls, 1, ix - 1) \o <<e>> \o SubSeq(ls, ix + 2, Len(ls))

\* the loop's test, i < lines.length - 1 (ix is the 0-based index)
ScanContinues(ls, ix) == ix < Len(ls) - 1

\* (variant: the index moves on after a merge, without the i--)
ScanAfterMerge_Advance(ix) == ix + 1

\* (variant: the index stays where it is when nothing merges)
ScanAfterKeep_Stuck(ix) == ix

\* the index of the next iteration after a merge: i-- in the body, then i++
ScanAfterMerge(ix) == (ix - 1) + 1

\* the index of the next iteration when nothing merges: i++
ScanAfterKeep(ix) == ix + 1

\* the whole for loop, run from index ix on the list ls
RECURSIVE MergePass(_, _)
MergePass(ls, ix) ==
    IF ~ScanContinues(ls, ix) THEN ls
    ELSE IF MergeTest(ls[ix + 1], ls[ix + 2])
         THEN MergePass(Splice2(ls, ix + 1,
                                <<ls[ix + 1][1], ls[ix + 2][2],
                                  MergedSpeed(ls[ix + 1], ls[ix + 2])>>),
                        ScanAfterMerge(ix))
         ELSE MergePass(ls, ScanAfterKeep(ix))

(***************************************************************************)
(* Stop compressor.                                                        *)
(***************************************************************************)
\* the filter over lines (compares e[2] of the tuple, the speed)
KeepLine(a, j) ==
    IF j = 1 \/ j = Len(a) THEN TRUE
    ELSE ~(StrictEq(a[j - 1][3], a[j][3]) /\ StrictEq(a[j][3], a[j + 1][3]))
FilterLines(a) == SelectIdx(a, {j \in 1..Len(a) : KeepLine(a, j)})

MidStop(e) == [at |-> Div(Add(e[1].at, e[2].at), Q(2)), speed |-> e[3]]
LineStops(ls) ==
    LET kept == FilterLines(ls) IN [j \in 1..Len(kept) |-> MidStop(kept[j])]

\* (variant: the fade-in stop placed after the start instead of before it)
FadeIn_After(first) ==
    IF Lt(Q(FadePad), first[1].at)
    THEN <<[at |-> Add(first[1].at, Q(FadePad)), speed |-> Q(0)]>>
    ELSE <<>>

\* (variant: the fade-out test with <= instead of <)
FadeOut_Inclusive(last, dur) ==
    IF Le(last[2].at, Q(dur - FadePad))
    THEN <<[at |-> Add(last[2].at, Q(FadePad)), speed |-> Q(0)]>>
    ELSE <<>>

\* (variant: boundary synthesis left out)
BoundaryStops_Omitted(ls, st, dur) == st

\* add start, first, last, end stops
FadeIn(first) ==
    IF Lt(Q(FadePad), first[1].at)
    THEN <<[at |-> Sub(first[1].at, Q(FadePad)), speed |-> Q(0)]>>
    ELSE <<>>
FadeOut(last, dur) ==
    IF Lt(last[2].at, Q(dur - FadePad))
    THEN <<[at |-> Add(last[2].at, Q(FadePad)), speed |-> Q(0)]>>
    ELSE <<>>
BoundaryStops(ls, st, dur) ==
    IF Len(ls) = 0 THEN st
    ELSE LET first == ls[1]
             last  == ls[Len(ls)]
         IN  FadeIn(first)
               \o <<[at |-> first[1].at, speed |-> first[3]]>>
               \o st
               \o <<[at |-> last[2].at, speed |-> last[3]]>>
               \o FadeOut(last, dur)

\* (variant: a stop is dropped when its speed equals either neighbour's)
KeepStop_EitherNeighbour(a, j) ==
    IF j = 1 \/ j = Len(a) THEN TRUE
    ELSE ~(StrictEq(a[j - 1].speed, a[j].speed)
           \/ StrictEq(a[j].speed, a[j + 1].speed))

\* (variant: the final filter left out)
FilterStops_Omitted(a) == a

\* remove duplicates: the filter over stops
KeepStop(a, j) ==
    IF j = 1 \/ j = Len(a) THEN TRUE
    ELSE ~(StrictEq(a[j - 1].speed, a[j].speed)
           /\ StrictEq(a[j].speed, a[j + 1].speed))
FilterStops(a) == SelectIdx(a, {j \in 1..Len(a) : KeepStop(a, j)})

(***************************************************************************)
(* Rendering of one stop: offset, stop-color (kept as the speed it is      *)
(* computed from) and stop-opacity (<<>> when the attribute is omitted,    *)
(* <<value>> otherwise).                                                   *)
(***************************************************************************)
NoOpacity == <<>>
StopOffset(s, dur) == round(MathMax0(MathMin1(Div(s.at, Q(dur)))))
StopOpacity(s) ==
    IF Le(Q(OpaqueSpeed), s.speed) THEN NoOpacity
    ELSE <<round(Div(s.speed, Q(100)))>>
RenderStop(s, dur) ==
    [offset |-> StopOffset(s, dur), speed |-> s.speed, opacity |-> StopOpacity(s)]
RenderStops(st, dur) == [j \in 1..Len(st) |-> RenderStop(st[j], dur)]

(***************************************************************************)
(* toSvgLines: geometry and paint order.                                   *)
(***************************************************************************)
StrokeAt(a, dur) ==
    round(Add(Mul(Div(a.at, Q(dur)),
                         Sub(Q(graphWidth), Mul(Q(2), lineWidth))),
                lineWidth))
StrokePos(a) ==
    round(Add(Div(Mul(Sub(Q(100), a.pos),
                      Sub(Q(graphHeight), Mul(Q(2), lineWidth))),
                  Q(100)),
              lineWidth))
lineToStroke(a, b, dur) ==
    <<StrokeAt(a, dur), StrokePos(a), StrokeAt(b, dur), StrokePos(b)>>

\* (variant: the sort left out, the lines stay in time order)
SortBySpeed_Omitted(ls) == {ls}

\* the comparator (a, b) => a[2] - b[2] as the sort reads it: negative,
\* zero or positive, a NaN difference counting as zero
SpeedCompare(a, b) ==
    LET v == Sub(a[3], b[3]) IN IF v.k = "nan" THEN 0 ELSE Sgn(v)
\* the comparator is consistent on ls (comparing equal, less and greater
\* are transitive).  Two speeds compare equal without being equal only when
\* one is NaN, and NaN compares equal to every speed: so the comparator is
\* consistent when no speed is NaN or when all speeds compare equal.
ConsistentComparator(ls) ==
    \/ \A j \in 1..Len(ls) : ls[j][3].k # "nan"
    \/ \A x, y \in 1..Len(ls) : SpeedCompare(ls[x], ls[y]) = 0
\* binary insertion of e into sorted[left + 1 .. right]: the place (0-based)
\* after the elements e does not compare less than
RECURSIVE BinaryPlace(_, _, _, _)
BinaryPlace(sorted, e, left, right) ==
    IF left >= right THEN left
    ELSE LET mid == left + ((right - left) \div 2)
         IN  IF SpeedCompare(e, sorted[mid + 1]) < 0
             THEN BinaryPlace(sorted, e, left, mid)
             ELSE BinaryPlace(sorted, e, mid + 1, right)
InsertBySpeed(sorted, e) ==
    LET at == BinaryPlace(sorted, e, 0, Len(sorted))
    IN  SubSeq(sorted, 1, at) \o <<e>> \o SubSeq(sorted, at + 1, Len(sorted))
\* the stable sort for a consistent comparator
StableSort(ls) ==
    LET F[j \in 0..Len(ls)] ==
            IF j = 0 THEN <<>> ELSE InsertBySpeed(F[j - 1], ls[j])
    IN  F[Len(ls)]
\* every order of the elements of ls
Reorderings(ls) ==
    {[q \in 1..Len(ls) |-> ls[f[q]]] : f \in Permutations(1..Len(ls))}
\* lines.sort((a, b) => a[2] - b[2]), the array it leaves: the stable sort
\* ascending by speed when the comparator is consistent, and an order the
\* implementation chooses when it is not
SortBySpeed(ls) ==
    IF ConsistentComparator(ls) THEN {StableSort(ls)} ELSE Reorderings(ls)

\* mergeLinesSpeed(lines, mergeLimit) of utils/manipulations rewrites the
\* list in place before the sort; the function is not part of the source at
\* hand.  The model lets it join any neighbouring lines of positive
\* duration into runs and either give every line of a run the run's
\* duration-weighted mean speed or fuse the run into one line of that
\* speed; joining nothing leaves the list as it is.
Joinable(ls) ==
    {j \in 1..(Len(ls) - 1) : Lt(ls[j][1].at, ls[j][2].at)
                                /\ Lt(ls[j + 1][1].at, ls[j + 1][2].at)}
\* the first and the last line of the run of line k, J the joined boundaries
RunStart(J, k) == CHOOSE lo \in 1..k :
    (\A j \in lo..(k - 1) : j \in J) /\ (lo - 1) \notin J
RunEnd(J, k, n) == CHOOSE hi \in k..n :
    (\A j \in k..(hi - 1) : j \in J) /\ hi \notin J
RunSpeed(ls, lo, hi) ==
    LET W[j \in lo..hi] ==
            LET t == Mul(ls[j][3], Sub(ls[j][2].at, ls[j][1].at))
            IN  IF j = lo THEN t ELSE Add(W[j - 1], t)
        D[j \in lo..hi] ==
            LET t == Sub(ls[j][2].at, ls[j][1].at)
            IN  IF j = lo THEN t ELSE Add(D[j - 1], t)
    IN  IF lo = hi THEN ls[lo][3] ELSE Div(W[hi], D[hi])
Respeed(ls, J) ==
    [k \in 1..Len(ls) |->
        <<ls[k][1], ls[k][2],
          RunSpeed(ls, RunStart(J, k), RunEnd(J, k, Len(ls)))>>]
Fuse(ls, J) ==
    LET r == Respeed(ls, J)
        heads == SelectIdx([k \in 1..Len(ls) |-> k],
                           {k \in 1..Len(ls) : RunStart(J, k) = k})
    IN  [h \in 1..Len(heads) |->
            <<ls[heads[h]][1], ls[RunEnd(J, heads[h], Len(ls))][2],
              r[heads[h]][3]>>]
MergeLinesSpeedOutcomes(ls) ==
    {Respeed(ls, J) : J \in SUBSET Joinable(ls)}
        \cup {Fuse(ls, J) : J \in SUBSET Joinable(ls)}

\* lines.map(...) over the sorted array: one path per line
StrokePaths(sorted, dur) ==
    [j \in 1..Len(sorted) |->
        [d |-> lineToStroke(sorted[j][1], sorted[j][2], dur),
         stroke |-> sorted[j][3]]]

(***************************************************************************)
(* Inputs.  A script is a list of keyframes with non-decreasing times;     *)
(* actionsToLines turns consecutive keyframes into contiguous lines, each  *)
(* tagged with a speed.  The generated scripts take their times, speeds    *)
(* and durations from the sets below; the scenario scripts are the ones    *)
(* the specification's examples name and scripts for merge cascades and   *)
(* for values that rounding moves.                                         *)
(***************************************************************************)
TimeSet == {100, 400, 900, 2900}
SpeedSet == {0, 50, 100}
DurationSet == {1000, 10000}
ScenarioDurationSet == {-1000, 0, 1000, 3000, 10000}
PosCycle == <<0, 100, 50>>
PosOf(j) == Q(PosCycle[((j - 1) % 3) + 1])

\* the lines of the keyframes a with the speeds sp
LinesBetween(a, sp) == [j \in 1..(Len(a) - 1) |-> <<a[j], a[j + 1], Q(sp[j])>>]

\* the lines of the keyframes at times t with the speeds sp
LinesOf(t, sp) ==
    LinesBetween([j \in 1..Len(t) |-> FunAction(Q(t[j]), PosOf(j))], sp)

\* the keyframe times of a generated script of k actions
ScriptTimes(k) ==
    {u \in [1..k -> TimeSet] : \A j \in 1..(k - 1) : u[j] <= u[j + 1]}

EndToEndSegments == LinesOf(<<0, 10000>>, <<50>>)
MergeExampleSegments == LinesOf(<<0, 400, 800>>, <<20, 60>>)
SubdivisionSegments == LinesOf(<<0, 4500>>, <<50>>)
PaintOrderSegments == LinesOf(<<0, 1000, 2000, 3000>>, <<10, 90, 5>>)
\* two short segments that merge, a long one that is split in three, a
\* zero-length one and a short tail
MixedSegments ==
    LinesOf(<<100, 400, 900, 4400, 4400, 4900>>, <<0, 50, 100, 50, 100>>)
\* a segment too long to merge with its right neighbour, then three short
\* ones that merge one after the other, then one that stays apart
CascadeSegments ==
    LinesOf(<<0, 1000, 1300, 1600, 1900, 3000>>, <<50, 0, 100, 50, 100>>)
\* two merges in a row, the second one with a speed that is itself the
\* rounded result of the first (295/7), next to a line of speed 40
RoundedSpeedSegments ==
    LinesOf(<<100, 550, 800, 850, 1100>>, <<60, 10, 10, 40>>)
\* seven short lines that merge into three
LongCascadeSegments ==
    LinesOf(<<0, 100, 400, 650, 750, 1450, 2150, 2300>>,
            <<0, 120, 80, 40, 80, 40, 50>>)
\* keyframes whose stroke coordinates lie halfway between two hundredths
HalfwaySegments ==
    LinesBetween(<<FunAction(Q(35), Frac(149, 2)), FunAction(Q(115), Q(0)),
                   FunAction(Q(275), Frac(151, 2))>>, <<20, 10>>)
\* single lines around the thresholds of the fades, for a duration of 1000:
\* a start at 200 and an end at 800 (the fades lie 100 ms from the edges),
\* starts and ends just inside and just outside of that, and ends at and
\* past 100 ms after the duration
PaddingEdgeSegments == LinesOf(<<200, 800>>, <<50>>)
PaddingInsideSegments == LinesOf(<<150, 850>>, <<50>>)
PaddingOutsideSegments == LinesOf(<<201, 799>>, <<50>>)
OvershootEdgeSegments == LinesOf(<<101, 1100>>, <<50>>)
OvershootSegments == LinesOf(<<100, 1101>>, <<50>>)
ScenarioSegments ==
    {EndToEndSegments, MergeExampleSegments, SubdivisionSegments,
     PaintOrderSegments, MixedSegments, CascadeSegments,
     RoundedSpeedSegments, LongCascadeSegments, HalfwaySegments,
     PaddingEdgeSegments, PaddingInsideSegments, PaddingOutsideSegments,
     OvershootEdgeSegments, OvershootSegments}

(***************************************************************************)
(* State.                                                                  *)
(***************************************************************************)
VARIABLES
    segments,    \* actionsToLines' result, the lines either call starts from
    durationMs,  \* the durationMs option of the call
    pc,          \* the position of the call
    merged,      \* toSvgLines' lines array as mergeLinesSpeed leaves it
    lines,       \* the lines array of the call (either function's local)
    i,           \* the merge loop's index (0-based, as in the source)
    stops,       \* toSvgBackgroundGradient's stops array
    gradient,    \* the <stop> elements returned
    strokes      \* the <path> elements toSvgLines returns

vars ==
    <<segments, durationMs, pc, merged, lines, i, stops, gradient, strokes>>

Init ==
    /\ \/ /\ \E k \in 1..MaxActions :
                 \E t \in ScriptTimes(k) :
                    \E sp \in [1..(k - 1) -> SpeedSet] :
                       segments = LinesOf(t, sp)
          /\ durationMs \in DurationSet
       \/ segments \in ScenarioSegments /\ durationMs \in ScenarioDurationSet
    /\ pc = "start"
    /\ merged = <<>>
    /\ lines = <<>>
    /\ i = 0
    /\ stops = <<>>
    /\ gradient = <<>>
    /\ strokes = <<>>

\* toSvgLines, whole: mergeLinesSpeed, the sort by speed in place, one path
\* per line (merged is the array before the sort, lines the array after it)
ToSvgLines ==
    /\ pc = "start"
    /\ \E m \in MergeLinesSpeedOutcomes(segments) :
          \E sorted \in SortBySpeed(m) :
             /\ merged' = m
             /\ lines' = sorted
             /\ strokes' = StrokePaths(sorted, durationMs)
    /\ pc' = "strokes"
    /\ UNCHANGED <<segments, durationMs, i, stops, gradient>>

\* toSvgBackgroundGradient, the flatMap
Expand ==
    /\ pc = "start"
    /\ lines' = ExpandLines(segments)
    /\ i' = 0
    /\ pc' = "merge"
    /\ UNCHANGED <<segments, durationMs, merged, stops, gradient, strokes>>

\* one iteration of the merge loop (the body, then i++)
MergeStep ==
    /\ pc = "merge"
    /\ ScanContinues(lines, i)
    /\ IF MergeTest(lines[i + 1], lines[i + 2])
       THEN /\ lines' = Splice2(lines, i + 1,
                          <<lines[i + 1][1], lines[i + 2][2],
                            MergedSpeed(lines[i + 1], lines[i + 2])>>)
            /\ i' = ScanAfterMerge(i)
       ELSE /\ lines' = lines
            /\ i' = ScanAfterKeep(i)
    /\ UNCHANGED <<segments, durationMs, merged, pc, stops, gradient, strokes>>

\* the loop ends; filter the lines and map them to their midpoint stops
Compress ==
    /\ pc = "merge"
    /\ ~ScanContinues(lines, i)
    /\ stops' = LineStops(lines)
    /\ pc' = "boundary"
    /\ UNCHANGED <<segments, durationMs, merged, lines, i, gradient, strokes>>

\* add start, first, last, end stops
Boundary ==
    /\ pc = "boundary"
    /\ stops' = BoundaryStops(lines, stops, durationMs)
    /\ pc' = "dedupe"
    /\ UNCHANGED <<segments, durationMs, merged, lines, i, gradient, strokes>>

\* remove duplicates
Dedupe ==
    /\ pc = "dedupe"
    /\ stops' = FilterStops(stops)
    /\ pc' = "render"
    /\ UNCHANGED <<segments, durationMs, merged, lines, i, gradient, strokes>>

\* the template: one <stop> per stop
Render ==
    /\ pc = "render"
    /\ gradient' = RenderStops(stops, durationMs)
    /\ pc' = "done"
    /\ UNCHANGED <<segments, durationMs, merged, lines, i, stops, strokes>>

Next ==
    \/ ToSvgLines
    \/ Expand
    \/ MergeStep
    \/ Compress
    \/ Boundary
    \/ Dedupe
    \/ Render

Spec == Init /\ [][Next]_vars

\* The loop is synchronous code that runs to completion: an iteration that
\* can be taken is taken, and so is the exit of the loop.  This is weak
\* fairness of MergeStep and of Compress, written out with the enabling
\* condition of each action read off its guard (both always change pc, i or
\* lines when they can be taken).
MergeStepEnabled == pc = "merge" /\ ScanContinues(lines, i)
CompressEnabled == pc = "merge" /\ ~ScanContinues(lines, i)
LoopRuns ==
    /\ ([]<>(~MergeStepEnabled) \/ []<><<MergeStep>>_vars)
    /\ ([]<>(~CompressEnabled) \/ []<><<Compress>>_vars)
LiveSpec == Spec /\ LoopRuns

(***************************************************************************)
(* Properties.                                                             *)
(***************************************************************************)
Finished == pc = "done"
\* the gradient call is past its expander
Expanded == pc \in {"merge", "boundary", "dedupe", "render", "done"}
\* the merge loop has ended
Merged == pc \in {"boundary", "dedupe", "render", "done"}
SpeedsOf(g) == [j \in 1..Len(g) |-> g[j].speed]
OffsetsOf(g) == [j \in 1..Len(g) |-> g[j].offset]
LineSpeeds(ls) == [j \in 1..Len(ls) |-> ls[j][3]]

\* the input segments of positive span, and the start of the first and the
\* end of the last of them
PositiveSegments == SelectSeq(segments, LAMBDA e : Lt(e[1].at, e[2].at))
FirstStart == PositiveSegments[1][1].at
LastEnd == PositiveSegments[Len(PositiveSegments)][2].at
\* the end-to-end scenario: one segment (0, 10000, speed 50), duration 10000
EndToEnd == segments = EndToEndSegments /\ durationMs = 10000

\* C1 (as amended): in the end-to-end scenario the expander yields 9
\* sub-segments of speed 50, the merger merges none of them, and the output is
\* exactly 2 stops of speed 50 and opacity 0.5 at offsets 0 and 1 (the start
\* of the first and the end of the last sub-segment).
C1_EndToEndOutput ==
    EndToEnd =>
        /\ Expanded =>
              /\ Len(lines) = 9
              /\ \A j \in 1..9 : lines[j][3] = Q(50)
        /\ Finished =>
              gradient =
                 <<[offset |-> Q(0), speed |-> Q(50), opacity |-> <<Frac(1, 2)>>],
                   [offset |-> Q(1), speed |-> Q(50), opacity |-> <<Frac(1, 2)>>]>>

C1_Witness == EndToEnd /\ Finished /\ Len(gradient) = 2

\* C1 (as claimed): the two output stops lie at offsets ~0.055 and ~0.944,
\* the midpoints of the first and the last sub-segment.
C1_MidpointOffsets ==
    (EndToEnd /\ Finished) =>
        /\ Len(gradient) = 2
        /\ SpeedsOf(gradient) = <<Q(50), Q(50)>>
        /\ Le(Frac(5, 100), gradient[1].offset)
        /\ Le(gradient[1].offset, Frac(6, 100))
        /\ Le(Frac(94, 100), gradient[2].offset)
        /\ Le(gradient[2].offset, Frac(95, 100))
        /\ \A j \in 1..2 : gradient[j].opacity = <<Frac(1, 2)>>

\* C2: a call with a zero or negative duration (here: for a script with a
\* segment of positive span, so that there are stops to place) is rejected:
\* it never returns a stop list, and no returned offset is NaN.
C2_NonPositiveDurationRejected ==
    (durationMs <= 0 /\ Len(PositiveSegments) > 0) =>
        /\ ~Finished
        /\ \A j \in 1..Len(gradient) : gradient[j].offset # NaN

\* the boundary-augmented stop list the final filter is applied to
AugmentedStops == BoundaryStops(lines, LineStops(lines), durationMs)

\* C3: for a positive duration the returned stop list holds no three
\* consecutive stops of the same speed.
C3_NoThreeEqualSpeeds ==
    (Finished /\ durationMs > 0) =>
        \A j \in 1..(Len(gradient) - 2) :
            ~(gradient[j].speed = gradient[j + 1].speed
              /\ gradient[j + 1].speed = gradient[j + 2].speed)

\* a finished call whose final filter removed a stop and left three or more
C3_Witness ==
    /\ Finished
    /\ durationMs > 0
    /\ Len(gradient) >= 3
    /\ Len(gradient) < Len(AugmentedStops)

\* C4: for a positive duration the offsets of the returned stops are
\* non-decreasing in list order (the inputs are time-ordered).
C4_OffsetsNonDecreasing ==
    (Finished /\ durationMs > 0) =>
        \A j \in 1..(Len(gradient) - 1) :
            /\ IsFinite(gradient[j].offset)
            /\ IsFinite(gradient[j + 1].offset)
            /\ Le(gradient[j].offset, gradient[j + 1].offset)

\* a finished call with a fade-in stop, a stop clamped to offset 1 and
\* offsets that do grow
C4_Witness ==
    /\ Finished
    /\ durationMs > 0
    /\ Len(gradient) >= 4
    /\ gradient[1].speed = Q(0)
    /\ Lt(gradient[1].offset, gradient[2].offset)
    /\ Lt(Q(durationMs), stops[Len(stops)].at)
    /\ gradient[Len(gradient)].offset = Q(1)

\* |x - y| <= e
Within(x, y, e) == Le(Sub(x, y), e) /\ Le(Sub(y, x), e)
\* x clamped to [0, 1]
Clamp01(x) == IF Lt(x, Q(0)) THEN Q(0) ELSE IF Lt(Q(1), x) THEN Q(1) ELSE x
\* the padding window, as a fraction of the duration
PadWindow == Frac(FadePad, durationMs)
\* the largest change rounding to 2 decimals makes (0.005), with room for
\* the floating-point error of the comparison
RoundingSlack == Frac(501, 100000)

\* C5 (as claimed): whenever there are output stops for a non-empty input,
\* the first offset is within the padding window of 0 and the last within the
\* padding window of 1.
C5_WithinPaddingOfEdges ==
    (Finished /\ durationMs > 0 /\ Len(segments) > 0 /\ Len(gradient) > 0) =>
        /\ Le(gradient[1].offset, PadWindow)
        /\ Le(Sub(Q(1), PadWindow), gradient[Len(gradient)].offset)

\* C5 (as amended): for a positive duration and an input with a segment of
\* positive span (keyframe times not negative), the first output stop is the
\* zero-speed stop at first.start - 100 when first.start > 100 and the stop
\* at first.start otherwise, and the last output stop is the zero-speed stop
\* at last.end + 100 when last.end < duration - 100 and the stop at last.end
\* otherwise; their offsets are these times divided by the duration, clamped
\* to [0, 1] and rounded to 2 decimals, and so lie within the padding window
\* (plus the rounding) of first.start / duration and last.end / duration
\* clamped to [0, 1].  The first stop is within 100 ms of time 0 exactly when
\* first.start <= 200, and the last stop is within 100 ms of the duration
\* exactly when duration - 200 <= last.end <= duration + 100.
C5_WithinPaddingOfSegments ==
    (Finished /\ durationMs > 0 /\ Len(PositiveSegments) > 0) =>
        /\ Len(stops) >= 2
        /\ Len(gradient) = Len(stops)
        /\ LET s1 == stops[1]
               sn == stops[Len(stops)]
               g1 == gradient[1]
               gn == gradient[Len(gradient)]
               fadeIn == Lt(Q(FadePad), FirstStart)
               fadeOut == Lt(LastEnd, Q(durationMs - FadePad))
           IN  /\ Le(Q(0), FirstStart)
               /\ s1.at = IF fadeIn THEN Sub(FirstStart, Q(FadePad))
                                    ELSE FirstStart
               /\ fadeIn => s1.speed = Q(0)
               /\ sn.at = IF fadeOut THEN Add(LastEnd, Q(FadePad))
                                     ELSE LastEnd
               /\ fadeOut => sn.speed = Q(0)
               /\ g1.offset = round(Clamp01(Div(s1.at, Q(durationMs))))
               /\ gn.offset = round(Clamp01(Div(sn.at, Q(durationMs))))
               /\ Within(g1.offset, Clamp01(Div(FirstStart, Q(durationMs))),
                         Add(PadWindow, RoundingSlack))
               /\ Within(gn.offset, Clamp01(Div(LastEnd, Q(durationMs))),
                         Add(PadWindow, RoundingSlack))
               /\ Within(s1.at, Q(0), Q(FadePad))
                     <=> Le(FirstStart, Q(2 * FadePad))
               /\ Within(sn.at, Q(durationMs), Q(FadePad))
                     <=> /\ Le(Q(durationMs - 2 * FadePad), LastEnd)
                         /\ Le(LastEnd, Q(durationMs + FadePad))

\* a finished call whose first segment starts more than 200 ms after 0 and
\* whose last ends more than 200 ms before the duration: both fades are
\* there, 100 ms from the segments and more than 100 ms from the edges
C5_Witness ==
    /\ Finished
    /\ durationMs > 0
    /\ Len(PositiveSegments) > 0
    /\ Lt(Q(2 * FadePad), FirstStart)
    /\ Lt(LastEnd, Q(durationMs - 2 * FadePad))
    /\ stops[1] = [at |-> Sub(FirstStart, Q(FadePad)), speed |-> Q(0)]
    /\ stops[Len(stops)] = [at |-> Add(LastEnd, Q(FadePad)), speed |-> Q(0)]
    /\ gradient[1].speed = Q(0)
    /\ gradient[Len(gradient)].speed = Q(0)
    /\ Lt(PadWindow, gradient[1].offset)

\* C6: with no merged segment the stop list is empty; otherwise the first
\* returned stop is the zero-speed stop at first.start - 100 exactly when
\* first.start > 100 and else the stop at first.start with the first
\* segment's speed, the last returned stop is the zero-speed stop at
\* last.end + 100 exactly when last.end < duration - 100 and else the stop at
\* last.end with the last segment's speed, and the final filter keeps the
\* first and the last stop of the list it is given.
C6_BoundarySynthesis ==
    Finished =>
        /\ Len(gradient) = Len(stops)
        /\ \A j \in 1..Len(stops) : gradient[j].speed = stops[j].speed
        /\ IF Len(lines) = 0
           THEN stops = <<>> /\ gradient = <<>>
           ELSE LET first  == lines[1]
                    last   == lines[Len(lines)]
                    s1     == stops[1]
                    sn     == stops[Len(stops)]
                    fadeIn == [at |-> Sub(first[1].at, Q(100)), speed |-> Q(0)]
                    fadeOut == [at |-> Add(last[2].at, Q(100)), speed |-> Q(0)]
                IN  /\ Len(stops) >= 2
                    /\ (s1 = fadeIn) <=> Lt(Q(100), first[1].at)
                    /\ ~Lt(Q(100), first[1].at) =>
                          s1 = [at |-> first[1].at, speed |-> first[3]]
                    /\ (sn = fadeOut) <=> Lt(last[2].at, Q(durationMs - 100))
                    /\ ~Lt(last[2].at, Q(durationMs - 100)) =>
                          sn = [at |-> last[2].at, speed |-> last[3]]
                    /\ s1 = AugmentedStops[1]
                    /\ sn = AugmentedStops[Len(AugmentedStops)]

\* a finished call with a fade-in, no fade-out, and a stop removed by the
\* final filter
C6_Witness ==
    /\ Finished
    /\ Len(lines) > 0
    /\ Lt(Q(100), lines[1][1].at)
    /\ ~Lt(lines[Len(lines)][2].at, Q(durationMs - 100))
    /\ stops[1].speed = Q(0)
    /\ Len(stops) < Len(AugmentedStops)

\* a step of the merge loop that fuses lines[i] and lines[i + 1]
MergeFires == pc = "merge" /\ pc' = "merge" /\ Len(lines') < Len(lines)

\* |x| and 2^e, exact
ExAbs(x) == IF IsZero(x) THEN x ELSE [x EXCEPT !.s = 1]
Pow2(e) == Exact(1, <<1>>, e)
\* the relative error the floating-point evaluation of the weighted mean
\* may add
MeanError == Pow2(-50)

\* C7: a merge happens only for a pair (a,b,s1), (c,d,s2) with
\* d.at - a.at < 1000 and replaces the pair, and nothing else, by the one
\* segment from a to d whose speed s is the floating-point value of
\* (s1 * (b.at - a.at) + s2 * (d.at - c.at)) / ((b.at - a.at) + (d.at - c.at)),
\* which is the weighted mean up to rounding: in exact arithmetic
\* s * ((b.at - a.at) + (d.at - c.at)) differs from
\* s1 * (b.at - a.at) + s2 * (d.at - c.at) by at most 2^-50 of the latter;
\* the 400 ms speed-20 and 400 ms speed-60 segments become one 800 ms segment
\* of speed exactly 40.
C7_WeightedMerge ==
    [][MergeFires =>
         LET l  == lines[i + 1]
             r  == lines[i + 2]
             m  == lines'[i + 1]
             d1 == Sub(l[2].at, l[1].at)
             d2 == Sub(r[2].at, r[1].at)
             x1 == ExSub(l[2].at, l[1].at)
             x2 == ExSub(r[2].at, r[1].at)
             sum == ExAdd(ExMul(l[3], x1), ExMul(r[3], x2))
         IN  /\ Lt(Sub(r[2].at, l[1].at), Q(1000))
             /\ Len(lines') = Len(lines) - 1
             /\ m[1] = l[1]
             /\ m[2] = r[2]
             /\ m[3] = Div(Add(Mul(l[3], d1), Mul(r[3], d2)), Add(d1, d2))
             /\ IsFinite(m[3])
             /\ Le(ExAbs(ExSub(ExMul(m[3], ExAdd(x1, x2)), sum)),
                   ExMul(sum, MeanError))
             /\ \A j \in 1..i : lines'[j] = lines[j]
             /\ \A j \in (i + 2)..Len(lines') : lines'[j] = lines[j + 1]
             /\ segments = MergeExampleSegments =>
                   /\ Len(lines') = 1
                   /\ Sub(m[2].at, m[1].at) = Q(800)
                   /\ m[3] = Q(40)]_vars

\* the merge example, merged: one 800 ms segment of speed 40
C7_Witness ==
    /\ segments = MergeExampleSegments
    /\ Merged
    /\ Len(lines) = 1
    /\ lines[1][1].at = Q(0)
    /\ lines[1][2].at = Q(800)
    /\ lines[1][3] = Q(40)

\* the number of sub-segments the expander is to give for a segment
ExpectedCount(e) ==
    LET span == Sub(e[2].at, e[1].at)
    IN  IF Le(span, Q(0)) THEN 0
        ELSE IF Le(span, Q(2000)) THEN 1
        ELSE Trunc(Div(Sub(span, Q(500)), Q(1000)))
\* the number of sub-segments of the first j input segments
ExpectedBefore(j) ==
    LET F[k \in 0..Len(segments)] ==
            IF k = 0 THEN 0 ELSE F[k - 1] + ExpectedCount(segments[k])
    IN  F[j]
\* the point of segment e at fraction k/N of the way from its start to its
\* end, as lerp computes it
PointAt(e, k, N) ==
    [at  |-> lerp(e[1].at, e[2].at, Div(Q(k), Q(N))),
     pos |-> lerp(e[1].pos, e[2].pos, Div(Q(k), Q(N)))]
\* v is the value at fraction k/N of the way from a to b, up to rounding:
\* in exact arithmetic N * v differs from N * a + k * (b - a) by at most
\* N * 2^-40
LerpError == Pow2(-40)
NearFraction(v, a, b, k, N) ==
    Le(ExAbs(ExSub(ExMul(Q(N), v),
                   ExAdd(ExMul(Q(N), a), ExMul(Q(k), ExSub(b, a))))),
       ExMul(Q(N), LerpError))

\* C8: the expander drops a segment of span <= 0, passes a segment of span
\* <= 2000 through unchanged, and replaces a segment of span > 2000 by
\* N = floor((span - 500) / 1000) sub-segments, the k-th running from the
\* point at (k-1)/N to the point at k/N of the original (as lerp computes
\* them, which is the exact point up to rounding) and carrying its speed;
\* the sub-segments are contiguous, the first starts at the original start
\* and the last ends at the original end (the keyframe times are whole
\* milliseconds); a 4500 ms segment gives 4 of 1125 ms each.
C8_Expander ==
    [][(pc = "start" /\ pc' = "merge") =>
         /\ Len(lines') = ExpectedBefore(Len(segments))
         /\ \A j \in 1..Len(segments) :
               LET e == segments[j]
                   N == ExpectedCount(e)
                   sub == [k \in 1..N |-> lines'[ExpectedBefore(j - 1) + k]]
               IN  /\ \A k \in 1..N :
                         /\ sub[k] = <<PointAt(e, k - 1, N), PointAt(e, k, N), e[3]>>
                         /\ NearFraction(sub[k][1].at, e[1].at, e[2].at, k - 1, N)
                         /\ NearFraction(sub[k][2].at, e[1].at, e[2].at, k, N)
                         /\ NearFraction(sub[k][1].pos, e[1].pos, e[2].pos, k - 1, N)
                         /\ NearFraction(sub[k][2].pos, e[1].pos, e[2].pos, k, N)
                         /\ Lt(sub[k][1].at, sub[k][2].at)
                   /\ \A k \in 1..(N - 1) : sub[k][2] = sub[k + 1][1]
                   /\ N >= 1 => sub[1][1] = e[1] /\ sub[N][2] = e[2]
                   /\ (N = 1 /\ Le(Sub(e[2].at, e[1].at), Q(2000))) => sub[1] = e
         /\ segments = SubdivisionSegments =>
               /\ Len(lines') = 4
               /\ \A k \in 1..4 :
                     /\ Sub(lines'[k][2].at, lines'[k][1].at) = Q(1125)
                     /\ lines'[k][3] = segments[1][3]]_vars

\* the 4500 ms segment, expanded into 4 contiguous sub-segments
C8_Witness ==
    /\ segments = SubdivisionSegments
    /\ pc = "merge"
    /\ Len(lines) = 4
    /\ lines[1][1].at = Q(0)
    /\ lines[4][2].at = Q(4500)
    /\ \A k \in 1..3 : lines[k][2] = lines[k + 1][1]

\* how often the line e occurs in the list ls
Occurrences(ls, e) == Cardinality({j \in 1..Len(ls) : ls[j] = e})
\* a and b hold the same lines, each as often
SameLines(a, b) ==
    /\ Len(a) = Len(b)
    /\ \A j \in 1..Len(a) : Occurrences(a, a[j]) = Occurrences(b, a[j])
\* the first place of the line e in the list ls
FirstPlace(ls, e) ==
    CHOOSE j \in 1..Len(ls) : ls[j] = e /\ \A k \in 1..(j - 1) : ls[k] # e
\* different lines of equal speed are in b in the order they have in a
KeepsTies(a, b) ==
    \A x, y \in 1..Len(a) :
        (x < y /\ a[x] # a[y] /\ a[x][3] = a[y][3]) =>
            FirstPlace(b, a[x]) < FirstPlace(b, a[y])

\* C9: toSvgLines returns exactly one path per segment of the speed-merged
\* list (the list mergeLinesSpeed leaves), drawn from that segment; the list
\* is sorted in place, so the paths are in ascending order of speed whatever
\* the segments' time order, segments of equal speed staying in time order;
\* the speeds [10, 90, 5] in time order come out as [5, 10, 90].
C9_PaintOrder ==
    pc = "strokes" =>
        /\ Len(strokes) = Len(merged)
        /\ Len(merged) <= Len(segments)
        /\ SameLines(merged, lines)
        /\ KeepsTies(merged, lines)
        /\ \A j \in 1..Len(lines) :
              strokes[j] =
                 [d      |-> lineToStroke(lines[j][1], lines[j][2], durationMs),
                  stroke |-> lines[j][3]]
        /\ \A j \in 1..(Len(strokes) - 1) :
              Le(strokes[j].stroke, strokes[j + 1].stroke)
        /\ LineSpeeds(merged) = <<Q(10), Q(90), Q(5)>> =>
              /\ [j \in 1..3 |-> strokes[j].stroke] = <<Q(5), Q(10), Q(90)>>
              /\ lines = <<merged[3], merged[1], merged[2]>>

\* the paint-order example, drawn: the segments of speeds 10, 90, 5 in time
\* order, sorted in place and drawn in the order 5, 10, 90
C9_Witness ==
    /\ pc = "strokes"
    /\ segments = PaintOrderSegments
    /\ merged = segments
    /\ LineSpeeds(merged) = <<Q(10), Q(90), Q(5)>>
    /\ lines = <<segments[3], segments[1], segments[2]>>
    /\ LineSpeeds(lines) = <<Q(5), Q(10), Q(90)>>
    /\ Len(strokes) = 3
    /\ strokes[1].stroke = Q(5)
    /\ strokes[3].stroke = Q(90)

\* every list of at most MaxStops stops with speeds of SpeedSet
SmallStopLists ==
    UNION {{[j \in 1..n |-> [at |-> Q(j), speed |-> Q(sp[j])]] :
               sp \in [1..n -> SpeedSet]} : n \in 0..MaxStops}

\* C10: filtering an already filtered list changes nothing: for the filter
\* over stops on every stop list a call holds (the boundary-augmented one
\* included) and on every list of at most MaxStops stops, and for the filter
\* over lines on every line list a call holds.
C10_FilterIdempotent ==
    /\ FilterStops(FilterStops(stops)) = FilterStops(stops)
    /\ FilterLines(FilterLines(lines)) = FilterLines(lines)
    /\ (pc = "start" /\ segments = <<>>) =>
          \A a \in SmallStopLists : FilterStops(FilterStops(a)) = FilterStops(a)

\* the final filter is about to run on a list from which it removes stops
\* and keeps at least three
C10_Witness ==
    /\ pc = "dedupe"
    /\ Len(FilterStops(stops)) < Len(stops)
    /\ Len(FilterStops(stops)) >= 3

\* what is left of the scan: the pairs from the index to the end of the list
ScanRemainder == Len(lines) - 1 - i

\* C11: the merge loop terminates.  Every iteration either merges, and then
\* the list is one segment shorter and the index is where it was (the merged
\* segment is examined again, against its new right neighbour), or does not
\* merge, and then the list is unchanged and the index is one further; either
\* way the rest of the scan is one pair shorter, and a call that has entered
\* the loop leaves it.
C11_MergeLoopTerminates ==
    /\ [][(pc = "merge" /\ pc' = "merge") =>
             /\ \/ Len(lines') = Len(lines) - 1 /\ i' = i
                \/ lines' = lines /\ i' = i + 1
             /\ ScanRemainder' = ScanRemainder - 1
             /\ ScanRemainder' >= 0]_vars
    /\ (pc = "merge") ~> (pc = "boundary")

\* the loop has ended after merging at least twice and advancing at least
\* once
C11_Witness ==
    /\ pc = "boundary"
    /\ Len(lines) <= Len(ExpandLines(segments)) - 2
    /\ i >= 1
    /\ ~ScanContinues(lines, i)

\* every line ends no earlier than it starts, and starts no earlier than the
\* line before it ends
TimeOrdered(ls) ==
    /\ \A j \in 1..Len(ls) : Le(ls[j][1].at, ls[j][2].at)
    /\ \A j \in 1..(Len(ls) - 1) : Le(ls[j][2].at, ls[j + 1][1].at)

\* no two neighbours of ls pass the merge test
NoMergeablePair(ls) ==
    \A j \in 1..(Len(ls) - 1) : ~MergeTest(ls[j], ls[j + 1])

\* C12: the merge loop reaches a fixpoint in one pass over a time-ordered
\* list.  While the loop runs, no pair to the left of the index passes the
\* merge test, the pair of a freshly merged segment and its left neighbour
\* included, so the loop never has to go back; when it has finished no
\* adjacent pair (a,b), (c,d) has d.at - a.at < 1000, and running the loop
\* again from the start gives the same list.
C12_MergerFixpoint ==
    (Expanded /\ TimeOrdered(ExpandLines(segments))) =>
        /\ TimeOrdered(lines)
        /\ \A j \in 1..i :
              j < Len(lines) => ~MergeTest(lines[j], lines[j + 1])
        /\ Merged => NoMergeablePair(lines)
        /\ pc = "boundary" => MergePass(lines, 0) = lines

\* the loop has finished on a list whose first segment is as it was and in
\* which later segments were merged at least twice, leaving at least two
C12_Witness ==
    /\ pc = "boundary"
    /\ TimeOrdered(ExpandLines(segments))
    /\ Len(lines) >= 2
    /\ Len(lines) <= Len(ExpandLines(segments)) - 2
    /\ lines[1] = ExpandLines(segments)[1]
    /\ lines[2] # ExpandLines(segments)[2]

=============================================================================
